---- MODULE Spec2Model ----
(***************************************************************************)
(* A model of chrisstoreclient.client.StoreClient: the resource-URL cache, *)
(* the public operations and the HTTP requests each of them issues.        *)
(*                                                                         *)
(* A public operation runs in steps, one step per HTTP request, because    *)
(* the server's answer to each request is an input of its own.  The code   *)
(* between two requests is part of the step that precedes it.              *)
(*                                                                         *)
(* Python values: None is the empty tuple and a present optional value v   *)
(* is <<v>>; a dict is the sequence of its <<key, value>> pairs in         *)
(* insertion order; a flattened record is a function from names to values. *)
(* Responses are well-formed Collection+JSON documents (or a transport     *)
(* failure); URLs, the store URL included, are non-empty strings.          *)
(***************************************************************************)
EXTENDS Integers, Sequences, FiniteSets, TLC

VARIABLES
    username,    \* self.username, None or <<name>>
    password,    \* self.password, None or <<password>>
    urls,        \* self._urls, the resource-URL cache
    pc,          \* "idle", the request the running operation issues next, or "done"
    call,        \* the public method called and its arguments; history: whether it
                 \* is the client's first call, whether the root document had been
                 \* resolved at its entry, whether a root fetch had failed before
                 \* its entry, and the cache at its entry
    url,         \* the running method's local `url`
    document,    \* history: the content of the response the method that is over
                 \* built its result from (for get_url, the root document it
                 \* fetched), None if it got none
    found,       \* `collection.items[0]` of the search a running method has made
    reqs,        \* the calls made to requests.get/post/put/delete by the operation
    errorBody,   \* history: message of the last error object a response body carried
    failed,      \* history: the numbers, in `reqs`, of the requests that failed
    outcome,     \* None while running, then what the method returned or raised
    fresh,       \* history: no public method has been called on the client yet
    rootOk,      \* history: get_url calls that fetched the root document and succeeded
    rootFailed   \* history: a get_url call has fetched the root document and failed

vars == <<username, password, urls, pc, call, url, document, found, reqs, errorBody,
          failed, outcome, fresh, rootOk, rootFailed>>

----------------------------------------------------------------------------
(* Bounds of the model *)

MaxItems == 2        \* items on one page
MaxTotal == 1        \* largest `total` a document carries
MaxRootFetch == 2    \* successful root fetches after which the model stops counting
MaxDescriptors == 3  \* descriptors of an item that is flattened on its own

(* Program constants *)

Timeout == 30

None == <<>>
Some(v) == <<v>>

content_type == "application/vnd.collection+json"

store_url == "http://store/api/v1/"

ResourceNames == {"plugin_metas", "plugins", "pipelines", "plugin_stars"}

----------------------------------------------------------------------------
(* The documents the server may answer with *)

Link(rel, href) == [rel |-> rel, href |-> href]
Descriptor(name, value) == [name |-> name, value |-> value]

ParametersUrl == "http://store/api/v1/plugins/1/parameters/"
NextUrl == "http://store/api/v1/plugins/?limit=1&offset=1"
PreviousUrl == "http://store/api/v1/plugins/?limit=1&offset=0"
PluginsUrl == "http://store/api/v1/plugins/"

\* one `parameters` link (not the first link), distinct descriptor names
ItemA ==
    [href |-> "http://store/api/v1/plugins/1/",
     data |-> <<Descriptor("id", 1), Descriptor("name", "pl-a")>>,
     links |-> <<Link("owner", "http://store/api/v1/users/2/"),
                 Link("parameters", ParametersUrl)>>]

\* two `parameters` links, a descriptor name that occurs twice
ItemB ==
    [href |-> "http://store/api/v1/plugins/2/",
     data |-> <<Descriptor("id", 2), Descriptor("name", "pl-b"),
                Descriptor("name", "pl-b2")>>,
     links |-> <<Link("parameters", "http://store/api/v1/plugins/2/parameters/"),
                 Link("parameters", "http://store/api/v1/plugins/2/other/")>>]

\* no link at all
ItemC ==
    [href |-> "http://store/api/v1/plugins/3/",
     data |-> <<Descriptor("name", "pl-c")>>,
     links |-> <<>>]

Items == {ItemA, ItemB, ItemC}

ItemLists == UNION {[1..n -> Items] : n \in 0..MaxItems}

RootLinks ==
    <<Link("plugins", PluginsUrl),
      Link("pipelines", "http://store/api/v1/pipelines/"),
      Link("plugin_stars", "http://store/api/v1/plugins/stars/")>>

\* no link; a first page; a last page; the relations of the root document;
\* a middle page with two `plugins` links; a page without `pipelines` link
LinkLists ==
    { <<>>,
      <<Link("next", NextUrl)>>,
      <<Link("previous", PreviousUrl)>>,
      RootLinks,
      <<Link("plugins", "http://store/api/v1/user-plugins/"), Link("next", NextUrl),
        Link("previous", PreviousUrl)>> \o RootLinks,
      <<Link("plugins", PluginsUrl),
        Link("plugin_stars", "http://store/api/v1/plugins/stars/")>> }

Totals == {None} \cup {Some(n) : n \in 0..MaxTotal}

ErrorMessage == "Authentication credentials were not provided."

\* the decoded JSON text of a response: content['collection']
Contents ==
    [error : {None}, items : ItemLists, links : LinkLists, total : Totals]
    \cup [error : {Some(ErrorMessage)}, items : {<<>>, <<ItemA>>},
          links : {<<>>}, total : {None}]

\* what requests.get/post/put hands back: a response object, or an exception
TransportError == [kind |-> "exception", msg |-> "Connection refused"]
Responses ==
    {TransportError} \cup {[kind |-> "response", content |-> c] : c \in Contents}

\* a DELETE is answered with an empty body, or with an error document
NoContent == [kind |-> "no_content"]
DeleteResponses ==
    {TransportError, NoContent}
    \cup {r \in Responses : r.kind = "response" /\ r.content.error # None}

\* the message of the error object a response body carries, None if it has none
ErrorOf(response) ==
    IF response.kind = "response" THEN response.content.error ELSE None

\* the request failed: the transport raised, or the body carries an error object
Fails(response) == response.kind = "exception" \/ ErrorOf(response) # None

----------------------------------------------------------------------------
(* Python outcomes *)

Return(v) == [kind |-> "return", value |-> v]
Raise(exc, msg) == [kind |-> "raise", exc |-> exc, msg |-> msg]

Returned(o) == o.kind = "return"

\* truth value of an optional string: None and '' are false
Truthy(s) == s # None /\ s[1] # ""

----------------------------------------------------------------------------
(* Helpers of StoreClient *)

RECURSIVE get_link_relation_urls(_, _)
get_link_relation_urls(links, relation_name) ==
    IF links = <<>> THEN <<>>
    ELSE (IF Head(links).rel = relation_name THEN <<Head(links).href>> ELSE <<>>)
         \o get_link_relation_urls(Tail(links), relation_name)

\* variant: a name that is in the dict already keeps its value
RECURSIVE item_descriptors_keep_first(_, _)
item_descriptors_keep_first(item_dict, data) ==
    IF data = <<>> THEN item_dict
    ELSE item_descriptors_keep_first(
             item_dict @@ (Head(data).name :> Head(data).value), Tail(data))

RECURSIVE item_descriptors_from(_, _)
item_descriptors_from(item_dict, data) ==
    IF data = <<>> THEN item_dict
    ELSE item_descriptors_from(
             (Head(data).name :> Head(data).value) @@ item_dict, Tail(data))

\* variant: the item's `parameters` links are put under a `parameters` key
get_item_descriptors_links(item) ==
    LET parameters == get_link_relation_urls(item.links, "parameters")
    IN  IF parameters # <<>>
        THEN ("parameters" :> parameters) @@ item_descriptors_from(<<>>, item.data)
        ELSE item_descriptors_from(<<>>, item.data)

get_item_descriptors(item) == item_descriptors_from(<<>>, item.data)

\* variant: the loop over the items starts at the second item
get_data_from_collection_skip(c) ==
    [data |-> [i \in 1..(Len(c.items) - 1) |-> get_item_descriptors(c.items[i + 1])],
     hasNextPage |-> get_link_relation_urls(c.links, "next") # <<>>,
     hasPreviousPage |-> get_link_relation_urls(c.links, "previous") # <<>>,
     total |-> IF c.total # None THEN c.total[1] ELSE 0]

get_data_from_collection(c) ==
    [data |-> [i \in 1..Len(c.items) |-> get_item_descriptors(c.items[i])],
     hasNextPage |-> get_link_relation_urls(c.links, "next") # <<>>,
     hasPreviousPage |-> get_link_relation_urls(c.links, "previous") # <<>>,
     total |-> IF c.total # None THEN c.total[1] ELSE 0]

\* variant: the total popped from the content is never set on the collection
get_collection_from_response_no_total(response) ==
    LET content == response.content
    IN  IF content.error # None
        THEN Raise("StoreRequestException", content.error[1])
        ELSE Return([items |-> content.items, links |-> content.links,
                     total |-> None])

get_collection_from_response(response) ==
    LET content == response.content
        total == content.total
    IN  IF content.error # None
        THEN Raise("StoreRequestException", content.error[1])
        ELSE Return([items |-> content.items, links |-> content.links,
                     total |-> total])

\* variant: the loop over the keys returns after the first key
template_data_first(descriptors_dict) ==
    IF descriptors_dict = <<>> THEN <<>>
    ELSE <<[name |-> Head(descriptors_dict)[1], value |-> Head(descriptors_dict)[2]]>>

RECURSIVE template_data(_)
template_data(descriptors_dict) ==
    IF descriptors_dict = <<>> THEN <<>>
    ELSE <<[name |-> Head(descriptors_dict)[1], value |-> Head(descriptors_dict)[2]]>>
         \o template_data(Tail(descriptors_dict))

makeTemplate(descriptors_dict) ==
    [template |-> [data |-> template_data(descriptors_dict)]]

\* json.dumps of a string without characters that need escaping
json_string(s) == "\"" \o s \o "\""

RECURSIVE json_data(_)
json_data(data) ==
    IF data = <<>> THEN ""
    ELSE "{\"name\": " \o json_string(Head(data).name) \o ", \"value\": "
         \o json_string(Head(data).value) \o "}"
         \o (IF Tail(data) = <<>> THEN "" ELSE ", ")
         \o json_data(Tail(data))

\* json.dumps of a template, with the default separators
json_dumps(t) == "{\"template\": {\"data\": [" \o json_data(t.template.data) \o "]}}"

----------------------------------------------------------------------------
(* The calls to the requests library *)

Auth == IF Truthy(username) \/ Truthy(password)
        THEN Some(<<username, password>>) ELSE None

JsonHeaders == Some([Content_Type |-> content_type, Accept |-> content_type])

Request(verb, u, params, headers, files, data) ==
    [verb |-> verb, url |-> u, params |-> params, auth |-> Auth,
     timeout |-> Timeout, headers |-> headers, files |-> files, data |-> data]

get_request(u, params) == Request("GET", u, params, JsonHeaders, None, None)

get(response) ==
    IF response.kind = "exception"
    THEN Raise("StoreRequestException", response.msg)
    ELSE get_collection_from_response(response)

\* variant: the JSON headers are sent with a multipart request too
post_put_request_headers(verb, u, data, descriptor_file) ==
    IF descriptor_file = None
    THEN Request(verb, u, None, JsonHeaders, None,
                 Some([type |-> "str", value |-> json_dumps(makeTemplate(data))]))
    ELSE Request(verb, u, None, JsonHeaders,
                 Some(<< <<"descriptor_file", descriptor_file[1]>> >>),
                 Some([type |-> "dict", value |-> data]))

post_put_request(verb, u, data, descriptor_file) ==
    IF descriptor_file = None
    THEN Request(verb, u, None, JsonHeaders, None,
                 Some([type |-> "str", value |-> json_dumps(makeTemplate(data))]))
    ELSE Request(verb, u, None, None,
                 Some(<< <<"descriptor_file", descriptor_file[1]>> >>),
                 Some([type |-> "dict", value |-> data]))

post_put(response) ==
    IF response.kind = "exception"
    THEN Raise("StoreRequestException", response.msg)
    ELSE get_collection_from_response(response)

delete_request(u) == Request("DELETE", u, None, None, None, None)

delete(response) ==
    IF response.kind = "exception"
    THEN Raise("StoreRequestException", response.msg)
    ELSE Return(None)

----------------------------------------------------------------------------
(* get_url: the resource-URL cache *)

\* variant: the cache is never consulted
get_url_fetches_always(cache, resource_name) == resource_name \in DOMAIN cache

\* `not self._urls[resource_name]`: the call has to fetch the root document
get_url_fetches(cache, resource_name) ==
    resource_name \in DOMAIN cache /\ cache[resource_name] = ""

\* variant: an unknown name yields the empty URL, as `self._urls.get(name, '')`
unknown_resource_default(cache, resource_name) ==
    [urls |-> cache, reqs |-> <<>>, out |-> Return("")]

\* `raise NameError(...)`: the name is no key of the cache
unknown_resource(cache, resource_name) ==
    [urls |-> cache, reqs |-> <<>>,
     out |-> Raise("NameError", "Could not find resource " \o resource_name \o ".")]

\* variant: only the `plugins` entry is taken from the root document
root_urls_only_plugins(plugins, pipelines, plugin_stars) ==
    [plugin_metas |-> store_url, plugins |-> plugins[1],
     pipelines |-> "", plugin_stars |-> ""]

\* the dict get_url stores from the links of the root document, each relation
\* having at least one link
root_urls(plugins, pipelines, plugin_stars) ==
    [plugin_metas |-> store_url, plugins |-> plugins[1],
     pipelines |-> pipelines[1], plugin_stars |-> plugin_stars[1]]

\* variant: each entry is stored as soon as its relation is read, so a root
\* document that lacks a relation leaves the entries read before it in the cache
get_url_call_partial(cache, resource_name, response) ==
    IF resource_name \notin DOMAIN cache
    THEN unknown_resource(cache, resource_name)
    ELSE IF ~get_url_fetches(cache, resource_name)
    THEN [urls |-> cache, reqs |-> <<>>, out |-> Return(cache[resource_name])]
    ELSE LET c == get(response)
             sent == <<get_request(store_url, None)>>
         IN  IF c.kind = "raise"
             THEN [urls |-> cache, reqs |-> sent, out |-> c]
             ELSE LET plugins == get_link_relation_urls(c.value.links, "plugins")
                      pipelines == get_link_relation_urls(c.value.links, "pipelines")
                      stars == get_link_relation_urls(c.value.links, "plugin_stars")
                  IN  IF plugins = <<>>
                      THEN [urls |-> cache, reqs |-> sent,
                            out |-> Raise("IndexError", "list index out of range")]
                      ELSE IF pipelines = <<>> \/ stars = <<>>
                      THEN [urls |-> [cache EXCEPT !["plugins"] = plugins[1]],
                            reqs |-> sent,
                            out |-> Raise("IndexError", "list index out of range")]
                      ELSE LET new == root_urls(plugins, pipelines, stars)
                           IN  [urls |-> new, reqs |-> sent,
                                out |-> Return(new[resource_name])]

\* the cache, the requests issued and the outcome of get_url(resource_name),
\* `response` being the server's answer to the root fetch if there is one
get_url_call(cache, resource_name, response) ==
    IF resource_name \notin DOMAIN cache
    THEN unknown_resource(cache, resource_name)
    ELSE IF ~get_url_fetches(cache, resource_name)
    THEN [urls |-> cache, reqs |-> <<>>, out |-> Return(cache[resource_name])]
    ELSE LET c == get(response)
             sent == <<get_request(store_url, None)>>
         IN  IF c.kind = "raise"
             THEN [urls |-> cache, reqs |-> sent, out |-> c]
             ELSE LET plugins == get_link_relation_urls(c.value.links, "plugins")
                      pipelines == get_link_relation_urls(c.value.links, "pipelines")
                      stars == get_link_relation_urls(c.value.links, "plugin_stars")
                  IN  IF plugins = <<>> \/ pipelines = <<>> \/ stars = <<>>
                      THEN [urls |-> cache, reqs |-> sent,
                            out |-> Raise("IndexError", "list index out of range")]
                      ELSE LET new == root_urls(plugins, pipelines, stars)
                           IN  [urls |-> new, reqs |-> sent,
                                out |-> Return(new[resource_name])]

----------------------------------------------------------------------------
(* The arguments the operations are called with *)

PluginNames == {"pl-a", "pl-zz"}
PluginIds == {1, 2}
Versions == {None, Some("0.1")}
SearchParams == {None, Some(<<>>), Some(<< <<"name", "pl-a">> >>)}
PageParams == {None, Some(<< <<"limit", 1>> >>)}
DescriptorFiles == {None, Some("descriptor.json")}
DockImages == {"fnndsc/pl-a"}
PublicRepos == {"https://github.com/FNNDSC"}
NewOwners == {None, Some(""), Some("bob")}
Credentials == {<<None, None>>, <<Some("cubeadmin"), None>>,
                <<Some("cubeadmin"), Some("cubeadmin1234")>>}

NoCall == [method |-> "", args |-> <<>>, first |-> FALSE, resolved0 |-> FALSE,
           failed0 |-> FALSE, urls0 |-> <<>>]

Init ==
    /\ \E c \in Credentials : username = c[1] /\ password = c[2]
    /\ urls = [plugin_metas |-> store_url, plugins |-> "", pipelines |-> "",
               plugin_stars |-> ""]
    /\ pc = "idle"
    /\ call = NoCall
    /\ url = ""
    /\ document = None
    /\ found = None
    /\ reqs = <<>>
    /\ errorBody = None
    /\ failed = {}
    /\ outcome = None
    /\ fresh = TRUE
    /\ rootOk = 0
    /\ rootFailed = FALSE

----------------------------------------------------------------------------
(* Steps *)

\* the answers the server may give to the root fetch of get_url(resource_name)
NoResponse == [kind |-> "none"]
RootResponses(resource_name) ==
    IF get_url_fetches(urls, resource_name) THEN Responses ELSE {NoResponse}

\* A public method is called with arguments a and runs up to the return of
\* its `self.get_url(resource_name)`; then it goes on at `next`, or it is over.
Begin(m, a, resource_name, next, response) ==
    LET g == get_url_call(urls, resource_name, response)
    IN  /\ get_url_fetches(urls, resource_name) => rootOk < MaxRootFetch
        /\ call' = [method |-> m, args |-> a, first |-> fresh,
                    resolved0 |-> rootOk > 0, failed0 |-> rootFailed, urls0 |-> urls]
        /\ fresh' = FALSE
        /\ urls' = g.urls
        /\ reqs' = g.reqs
        /\ errorBody' = IF g.reqs # <<>> THEN ErrorOf(response) ELSE None
        /\ failed' = IF g.reqs # <<>> /\ Fails(response) THEN {1} ELSE {}
        /\ rootOk' = IF g.reqs # <<>> /\ Returned(g.out) THEN rootOk + 1 ELSE rootOk
        /\ rootFailed' = (rootFailed \/ (g.reqs # <<>> /\ ~Returned(g.out)))
        /\ document' = IF next = "done" /\ g.reqs # <<>> /\ ~Fails(response)
                       THEN Some(response.content) ELSE None
        /\ found' = None
        /\ IF Returned(g.out) /\ next # "done"
           THEN pc' = next /\ url' = g.out.value /\ outcome' = None
           ELSE pc' = "done" /\ url' = "" /\ outcome' = Some(g.out)
        /\ UNCHANGED <<username, password>>

\* one of the methods m is running and issues the request `at` next
At(m, at) == pc = at /\ call.method \in m

\* the running method issues one request and receives `response`
Issue(req, response) ==
    /\ reqs' = Append(reqs, req)
    /\ errorBody' = IF ErrorOf(response) # None THEN ErrorOf(response) ELSE errorBody
    /\ failed' = IF Fails(response) THEN failed \cup {Len(reqs) + 1} ELSE failed
    /\ UNCHANGED <<username, password, urls, call, fresh, rootOk, rootFailed>>

\* the running method returns or raises, c being the content of the response
\* it last decoded (None if the request failed)
End(c, out) ==
    /\ pc' = "done"
    /\ outcome' = Some(out)
    /\ url' = url
    /\ document' = c
    /\ found' = found

\* the running method goes on to its next request, to URL u, having found
\* `item` as the first item of its search
Goto(next, u, item) ==
    /\ pc' = next
    /\ outcome' = None
    /\ url' = u
    /\ document' = None
    /\ found' = Some(item)

\* the caller takes the result: the client is idle again
ReturnToCaller ==
    /\ pc = "done"
    /\ pc' = "idle"
    /\ call' = NoCall
    /\ url' = ""
    /\ document' = None
    /\ found' = None
    /\ reqs' = <<>>
    /\ errorBody' = None
    /\ failed' = {}
    /\ outcome' = None
    /\ UNCHANGED <<username, password, urls, fresh, rootOk, rootFailed>>

----------------------------------------------------------------------------
(* The public methods *)

get_url(resource_name) ==
    /\ pc = "idle"
    /\ \E response \in RootResponses(resource_name) :
        Begin("get_url", [resource_name |-> resource_name], resource_name, "done",
              response)

\* self.get(query_url, search_params) if search_params else self.get(url)
listing_request(u, search_params) ==
    IF search_params # None /\ search_params[1] # <<>>
    THEN get_request(u \o "search/", search_params)
    ELSE get_request(u, None)

get_plugin_metas(search_params) ==
    /\ pc = "idle"
    /\ \E response \in RootResponses("plugin_metas") :
        Begin("get_plugin_metas", [search_params |-> search_params],
              "plugin_metas", "get", response)

get_plugin_meta(name) ==
    /\ pc = "idle"
    /\ \E response \in RootResponses("plugin_metas") :
        Begin("get_plugin_meta",
              [name |-> name, search_params |-> Some(<< <<"name_exact", name>> >>)],
              "plugin_metas", "get", response)

get_plugin_meta_by_id(id) ==
    /\ pc = "idle"
    /\ \E response \in RootResponses("plugin_metas") :
        Begin("get_plugin_meta_by_id",
              [id |-> id, search_params |-> Some(<< <<"id", id>> >>)],
              "plugin_metas", "get", response)

get_plugins(search_params) ==
    /\ pc = "idle"
    /\ \E response \in RootResponses("plugins") :
        Begin("get_plugins", [search_params |-> search_params],
              "plugins", "get", response)

get_plugin(name, version) ==
    /\ pc = "idle"
    /\ \E response \in RootResponses("plugins") :
        Begin("get_plugin",
              [name |-> name,
               version |-> IF version # None THEN version[1] ELSE "latest",
               search_params |->
                   IF version # None
                   THEN Some(<< <<"name_exact", name>>, <<"version", version[1]>> >>)
                   ELSE Some(<< <<"name_exact_latest", name>> >>)],
              "plugins", "get", response)

get_plugin_by_id(id) ==
    /\ pc = "idle"
    /\ \E response \in RootResponses("plugins") :
        Begin("get_plugin_by_id",
              [id |-> id, search_params |-> Some(<< <<"id", id>> >>)],
              "plugins", "get", response)

\* variant: an empty result is answered with None
lookup_result_none(result, message) ==
    IF Len(result.data) > 0 THEN Return(result.data[1]) ELSE Return(None)

\* `if result['data']: return result['data'][0]`, `else: raise ...`
lookup_result(result, message) ==
    IF Len(result.data) > 0 THEN Return(result.data[1])
    ELSE Raise("StoreRequestException", message)

\* what the method called makes of the result of the listing it calls
listing_result(c, result) ==
    CASE c.method \in {"get_plugin_metas", "get_plugins"} -> Return(result)
      [] c.method = "get_plugin_meta" ->
            lookup_result(result, "Could not find plugin meta with name "
                                  \o c.args.name \o ".")
      [] c.method = "get_plugin_meta_by_id" ->
            lookup_result(result, "Could not find plugin meta with id "
                                  \o ToString(c.args.id))
      [] c.method = "get_plugin" ->
            lookup_result(result, "Could not find plugin name " \o c.args.name
                                  \o " with version " \o c.args.version \o ".")
      [] c.method = "get_plugin_by_id" ->
            lookup_result(result, "Could not find plugin with id "
                                  \o ToString(c.args.id))

\* the GET of get_plugin_metas and get_plugins, up to the return of the
\* method called
listing_get ==
    /\ At({"get_plugin_metas", "get_plugin_meta", "get_plugin_meta_by_id",
           "get_plugins", "get_plugin", "get_plugin_by_id"}, "get")
    /\ \E response \in Responses :
        LET c == get(response)
        IN  /\ Issue(listing_request(url, call.args.search_params), response)
            /\ IF c.kind = "raise"
               THEN End(None, c)
               ELSE End(Some(response.content),
                        listing_result(call, get_data_from_collection(c.value)))

get_plugin_parameters(plugin_id, params) ==
    /\ pc = "idle"
    /\ \E response \in RootResponses("plugins") :
        Begin("get_plugin_parameters", [plugin_id |-> plugin_id, params |-> params],
              "plugins", "get", response)

\* the id search of get_plugin_parameters, up to its second request
get_plugin_parameters_search ==
    /\ At({"get_plugin_parameters"}, "get")
    /\ \E response \in Responses :
        LET c == get(response)
            parameters_links ==
                get_link_relation_urls(c.value.items[1].links, "parameters")
        IN  /\ Issue(get_request(url \o "search/",
                                 Some(<< <<"id", call.args.plugin_id>> >>)),
                     response)
            /\ IF c.kind = "raise"
               THEN End(None, c)
               ELSE IF Len(c.value.items) = 0
               THEN End(Some(response.content),
                        Raise("StoreRequestException",
                              "Could not find plugin with id: "
                              \o ToString(call.args.plugin_id) \o "."))
               ELSE IF parameters_links # <<>>
               THEN Goto("parameters", parameters_links[1], c.value.items[1])
               ELSE End(Some(response.content),
                        Return([data |-> <<>>, hasNextPage |-> FALSE,
                                hasPreviousPage |-> FALSE, total |-> 0]))

\* variant: the caller's params are not passed to the GET of the parameters link
get_plugin_parameters_get_no_params ==
    /\ At({"get_plugin_parameters"}, "parameters")
    /\ \E response \in Responses :
        LET c == get(response)
        IN  /\ Issue(get_request(url, None), response)
            /\ IF c.kind = "raise"
               THEN End(None, c)
               ELSE End(Some(response.content), Return(get_data_from_collection(c.value)))

\* the GET of the parameters link, up to the return of get_plugin_parameters
get_plugin_parameters_get ==
    /\ At({"get_plugin_parameters"}, "parameters")
    /\ \E response \in Responses :
        LET c == get(response)
        IN  /\ Issue(get_request(url, call.args.params), response)
            /\ IF c.kind = "raise"
               THEN End(None, c)
               ELSE End(Some(response.content), Return(get_data_from_collection(c.value)))

add_plugin(name, dock_image, descriptor_file, public_repo) ==
    /\ pc = "idle"
    /\ \E response \in RootResponses("plugins") :
        Begin("add_plugin",
              [descriptor_file |-> descriptor_file,
               data |-> << <<"name", name>>, <<"dock_image", dock_image>>,
                           <<"public_repo", public_repo>> >>],
              "plugins", "post", response)

\* result['data'][0] of the collection a POST or a PUT answered with
first_record(c) ==
    LET result == get_data_from_collection(c)
    IN  IF Len(result.data) > 0 THEN Return(result.data[1])
        ELSE Raise("IndexError", "list index out of range")

\* the POST of add_plugin, up to its return
add_plugin_post ==
    /\ At({"add_plugin"}, "post")
    /\ \E response \in Responses :
        LET c == post_put(response)
        IN  /\ Issue(post_put_request("POST", url, call.args.data,
                                      call.args.descriptor_file),
                     response)
            /\ IF c.kind = "raise"
               THEN End(None, c)
               ELSE End(Some(response.content), first_record(c.value))

\* variant: the method goes on with the href of the last item found
search_href_last(m, search_params, next) ==
    /\ At({m}, "get")
    /\ \E response \in Responses :
        LET c == get(response)
        IN  /\ Issue(get_request(url \o "search/", Some(search_params)), response)
            /\ IF c.kind = "raise"
               THEN End(None, c)
               ELSE IF Len(c.value.items) = 0
               THEN End(Some(response.content), Raise("IndexError", "list index out of range"))
               ELSE Goto(next, c.value.items[Len(c.value.items)].href, c.value.items[1])

\* the search GET of remove_plugin, modify_plugin_meta and remove_plugin_meta,
\* up to `url = collection.items[0].href`; the method goes on at `next`
search_href(m, search_params, next) ==
    /\ At({m}, "get")
    /\ \E response \in Responses :
        LET c == get(response)
        IN  /\ Issue(get_request(url \o "search/", Some(search_params)), response)
            /\ IF c.kind = "raise"
               THEN End(None, c)
               ELSE IF Len(c.value.items) = 0
               THEN End(Some(response.content), Raise("IndexError", "list index out of range"))
               ELSE Goto(next, c.value.items[1].href, c.value.items[1])

\* self.delete(url), up to the return of the removing method
delete_href(m) ==
    /\ At({m}, "delete")
    /\ \E response \in DeleteResponses :
        /\ Issue(delete_request(url), response)
        /\ End(None, delete(response))

remove_plugin(id) ==
    /\ pc = "idle"
    /\ \E response \in RootResponses("plugins") :
        Begin("remove_plugin", [id |-> id], "plugins", "get", response)

remove_plugin_search ==
    search_href("remove_plugin", << <<"id", call.args.id>> >>, "delete")

remove_plugin_delete == delete_href("remove_plugin")

modify_plugin_meta(name, public_repo, new_owner) ==
    /\ pc = "idle"
    /\ \E response \in RootResponses("plugin_metas") :
        Begin("modify_plugin_meta",
              [name |-> name,
               data |-> << <<"public_repo", public_repo>> >>
                        \o (IF Truthy(new_owner)
                            THEN << <<"new_owner", new_owner[1]>> >> ELSE <<>>)],
              "plugin_metas", "get", response)

modify_plugin_meta_search ==
    search_href("modify_plugin_meta", << <<"name_exact", call.args.name>> >>, "put")

\* the PUT of modify_plugin_meta, up to its return
modify_plugin_meta_put ==
    /\ At({"modify_plugin_meta"}, "put")
    /\ \E response \in Responses :
        LET c == post_put(response)
        IN  /\ Issue(post_put_request("PUT", url, call.args.data, None), response)
            /\ IF c.kind = "raise"
               THEN End(None, c)
               ELSE End(Some(response.content), first_record(c.value))

remove_plugin_meta(id) ==
    /\ pc = "idle"
    /\ \E response \in RootResponses("plugin_metas") :
        Begin("remove_plugin_meta", [id |-> id], "plugin_metas", "get", response)

remove_plugin_meta_search ==
    search_href("remove_plugin_meta", << <<"id", call.args.id>> >>, "delete")

remove_plugin_meta_delete == delete_href("remove_plugin_meta")

Next ==
    \/ \E n \in ResourceNames \cup {"users"} : get_url(n)
    \/ \E sp \in SearchParams : get_plugin_metas(sp)
    \/ \E n \in PluginNames : get_plugin_meta(n)
    \/ \E i \in PluginIds : get_plugin_meta_by_id(i)
    \/ \E sp \in SearchParams : get_plugins(sp)
    \/ \E n \in PluginNames, v \in Versions : get_plugin(n, v)
    \/ \E i \in PluginIds : get_plugin_by_id(i)
    \/ listing_get
    \/ \E i \in PluginIds, p \in PageParams : get_plugin_parameters(i, p)
    \/ get_plugin_parameters_search
    \/ get_plugin_parameters_get
    \/ \E n \in PluginNames, d \in DockImages, f \in DescriptorFiles,
          r \in PublicRepos : add_plugin(n, d, f, r)
    \/ add_plugin_post
    \/ \E i \in PluginIds : remove_plugin(i)
    \/ remove_plugin_search
    \/ remove_plugin_delete
    \/ \E n \in PluginNames, r \in PublicRepos, o \in NewOwners :
          modify_plugin_meta(n, r, o)
    \/ modify_plugin_meta_search
    \/ modify_plugin_meta_put
    \/ \E i \in PluginIds : remove_plugin_meta(i)
    \/ remove_plugin_meta_search
    \/ remove_plugin_meta_delete
    \/ ReturnToCaller

Spec == Init /\ [][Next]_vars

----------------------------------------------------------------------------
(* _get_item_descriptors on its own, applied to any item *)

DescriptorNames == {"id", "name", "dock_image"}

\* the values a descriptor of that name may carry: integers for `id`, strings
\* (one of them the text of an integer, one empty) for the others
DescriptorValues(name) ==
    CASE name = "id" -> PluginIds
      [] name = "name" -> {"pl-a", "1"}
      [] name = "dock_image" -> {"", "fnndsc/pl-a"}

Descriptors ==
    UNION {{Descriptor(name, value) : value \in DescriptorValues(name)} :
              name \in DescriptorNames}

DescriptorLists == UNION {[1..n -> Descriptors] : n \in 0..MaxDescriptors}

\* an idle client and an item, in `found`, that is to be flattened
InitFlatten ==
    /\ username = None /\ password = None
    /\ urls = [plugin_metas |-> store_url, plugins |-> "", pipelines |-> "",
               plugin_stars |-> ""]
    /\ pc = "idle"
    /\ call = [NoCall EXCEPT !.method = "_get_item_descriptors"]
    /\ url = ""
    /\ document = None
    /\ \E data \in DescriptorLists :
          found = Some([href |-> "http://store/api/v1/plugins/1/", data |-> data,
                        links |-> <<>>])
    /\ reqs = <<>>
    /\ errorBody = None
    /\ failed = {}
    /\ outcome = None
    /\ fresh = TRUE
    /\ rootOk = 0
    /\ rootFailed = FALSE

\* self._get_item_descriptors(item) is called and returns
get_item_descriptors_call ==
    /\ pc = "idle"
    /\ call.method = "_get_item_descriptors"
    /\ pc' = "done"
    /\ outcome' = Some(Return(get_item_descriptors(found[1])))
    /\ UNCHANGED <<username, password, urls, call, url, document, found, reqs,
                   errorBody, failed, fresh, rootOk, rootFailed>>

NextFlatten == get_item_descriptors_call

SpecFlatten == InitFlatten /\ [][NextFlatten]_vars

----------------------------------------------------------------------------
(* Vocabulary of the properties *)

\* the method that was called is over
Done(m) == pc = "done" /\ call.method \in m

Ok == outcome # None /\ outcome[1].kind = "return"
Failed(exc) == outcome # None /\ outcome[1].kind = "raise" /\ outcome[1].exc = exc

\* request i of the operation is a GET of the API root
RootGet(i) == reqs[i].verb = "GET" /\ reqs[i].url = store_url /\ reqs[i].params = None

Populated(cache) == \A n \in ResourceNames : cache[n] # ""

\* string s occurs in string t
Contains(t, s) == \E i \in 1..(Len(t) - Len(s) + 1) : SubSeq(t, i, i + Len(s) - 1) = s

\* the record of an item: its descriptor names, each with the value of the
\* last descriptor of that name
LastIndex(data, name) ==
    CHOOSE i \in 1..Len(data) :
        /\ data[i].name = name
        /\ \A j \in (i + 1)..Len(data) : data[j].name # name
RecordOf(item) ==
    [name \in {item.data[i].name : i \in 1..Len(item.data)} |->
        item.data[LastIndex(item.data, name)].value]

HasLink(links, rel) == \E i \in 1..Len(links) : links[i].rel = rel

FirstGetUrl ==
    /\ Done({"get_url"})
    /\ call.first
    /\ call.args.resource_name \in ResourceNames

----------------------------------------------------------------------------
(* C1 *)

\* C1, as the specification states it: on a fresh client the first get_url call for any of the four
\* recognised names issues exactly one GET to the API root, and when it
\* returns every URL of the cache is non-empty.
C1_FirstCallFetchesRoot ==
    FirstGetUrl =>
        /\ Len(reqs) = 1 /\ RootGet(1)
        /\ Ok => Populated(urls)

\* C1, amended: that holds for plugins, pipelines and plugin_stars; the first
\* get_url call for plugin_metas issues no request, returns the store URL the
\* cache was constructed with, and leaves the other three URLs empty.
C1_FirstCall ==
    FirstGetUrl =>
        IF call.args.resource_name = "plugin_metas"
        THEN /\ reqs = <<>>
             /\ Ok /\ outcome[1].value = store_url
             /\ \A n \in ResourceNames \ {"plugin_metas"} : urls[n] = ""
        ELSE /\ Len(reqs) = 1 /\ RootGet(1)
             /\ Ok => Populated(urls)

C1_Witness ==
    /\ FirstGetUrl
    /\ call.args.resource_name = "pipelines"
    /\ Ok
    /\ Populated(urls)

----------------------------------------------------------------------------
(* C2 *)

\* C2: once a get_url call has resolved the root document, no operation
\* changes the cache any more, and every get_url call for a recognised name
\* issues no request and returns the entry the cache had at its entry; a
\* get_url call always returns the cache's entry for the name, the entry of
\* plugin_metas is the store URL from the start, and the root document is
\* resolved at most once.
C2_ResolvedOnce ==
    /\ rootOk <= 1
    /\ urls["plugin_metas"] = store_url
    /\ (pc # "idle" /\ call.resolved0) => urls = call.urls0
    /\ (Done({"get_url"}) /\ Ok) =>
            outcome[1].value = urls[call.args.resource_name]
    /\ (Done({"get_url"}) /\ call.resolved0
            /\ call.args.resource_name \in ResourceNames) =>
            /\ reqs = <<>>
            /\ Ok
            /\ outcome[1].value = call.urls0[call.args.resource_name]

C2_Witness ==
    /\ Done({"get_url"})
    /\ call.resolved0
    /\ call.args.resource_name = "plugin_stars"
    /\ reqs = <<>>
    /\ Ok /\ outcome[1].value # ""

----------------------------------------------------------------------------
(* C3 *)

\* C3: get_url with a name that is not recognised raises NameError, issues no
\* request and leaves the cache as it was at the call.
C3_UnknownName ==
    (Done({"get_url"}) /\ call.args.resource_name \notin ResourceNames) =>
        /\ Failed("NameError")
        /\ reqs = <<>>
        /\ urls = call.urls0

C3_Witness ==
    /\ Done({"get_url"})
    /\ call.args.resource_name \notin ResourceNames
    /\ Failed("NameError")
    /\ Populated(urls)

----------------------------------------------------------------------------
(* C4 *)

\* C4: an operation that received a response body with an error object ends
\* in a StoreRequestException carrying that error's message, whatever request
\* the response answered.
C4_ErrorBodyFails ==
    (pc = "done" /\ errorBody # None) =>
        /\ Failed("StoreRequestException")
        /\ outcome[1].msg = errorBody[1]

----------------------------------------------------------------------------
(* C5 *)

Lookups == {"get_plugin", "get_plugin_by_id", "get_plugin_meta", "get_plugin_meta_by_id"}
Listings == {"get_plugins", "get_plugin_metas"}

\* the key a lookup was called with, as text
LookupKey ==
    IF call.method \in {"get_plugin", "get_plugin_meta"}
    THEN call.args.name ELSE ToString(call.args.id)

\* C5: when the search answers with zero items a lookup raises a
\* StoreRequestException whose message contains the lookup key, and a listing
\* returns an empty data list; when it answers with items, a lookup returns
\* the record of the first item.
C5_LookupNotFound ==
    /\ (Done(Lookups) /\ document # None) =>
            IF Len(document[1].items) = 0
            THEN /\ Failed("StoreRequestException")
                 /\ Contains(outcome[1].msg, LookupKey)
            ELSE /\ Ok
                 /\ outcome[1].value = RecordOf(document[1].items[1])
    /\ (Done(Listings) /\ document # None /\ Len(document[1].items) = 0) =>
            Ok /\ outcome[1].value.data = <<>>

C5_Witness ==
    /\ Done({"get_plugin_by_id"})
    /\ call.args.id = 2
    /\ document # None
    /\ Len(document[1].items) = 0
    /\ Failed("StoreRequestException")

----------------------------------------------------------------------------
(* C6 *)

\* The page the server holds behind the `next` link of a first page: the last
\* page of a chain of two.
NextPage ==
    [error |-> None, items |-> <<ItemC>>,
     links |-> <<Link("previous", PreviousUrl)>>, total |-> None]

\* the items on the pages of the chain that starts with page d
ChainItemCount(d) ==
    Len(d.items) + (IF HasLink(d.links, "next") THEN Len(NextPage.items) ELSE 0)

ListingAnswered == Done(Listings) /\ document # None

\* C6, as the specification states it: the records a listing returns cover every page of the
\* chain its first page starts: their number is the sum of the item counts of
\* all the pages.
C6_AllPages ==
    ListingAnswered =>
        Ok /\ Len(outcome[1].value.data) = ChainItemCount(document[1])

\* C6, amended: a listing returns the records of the one page its GET
\* answered with, as many as that page has items whether or not the page has
\* a `next` link; it issues that one GET (after the root fetch of get_url, if
\* any) and none to the `next` link.
C6_FirstPageOnly ==
    ListingAnswered =>
        /\ Ok
        /\ Len(outcome[1].value.data) = Len(document[1].items)
        /\ Len(reqs) = (IF urls # call.urls0 THEN 2 ELSE 1)
        /\ \A i \in 1..Len(reqs) : reqs[i].verb = "GET" /\ reqs[i].url # NextUrl

C6_Witness ==
    /\ ListingAnswered
    /\ HasLink(document[1].links, "next")
    /\ Len(document[1].items) = MaxItems
    /\ Len(outcome[1].value.data) = MaxItems

----------------------------------------------------------------------------
(* C7 *)

LinkCount(links, rel) == Cardinality({i \in 1..Len(links) : links[i].rel = rel})

PluginsAnswered == Done({"get_plugins"}) /\ document # None

\* C7, as the specification states it: the record of an item with exactly one `parameters` link
\* has a `parameters` key holding a one-element list.
C7_ParametersInlined ==
    PluginsAnswered =>
        \A i \in 1..Len(document[1].items) :
            LinkCount(document[1].items[i].links, "parameters") = 1 =>
                /\ "parameters" \in DOMAIN outcome[1].value.data[i]
                /\ Len(outcome[1].value.data[i]["parameters"]) = 1

\* C7, amended: the record of every item get_plugins returns, with a
\* `parameters` link or without, has the names of the item's descriptors as
\* its keys and no other, so no `parameters` key is added; get_plugins
\* requests no `parameters` link.
C7_DescriptorsOnly ==
    PluginsAnswered =>
        /\ \A i \in 1..Len(document[1].items) :
              DOMAIN outcome[1].value.data[i] =
                  {document[1].items[i].data[k].name :
                      k \in 1..Len(document[1].items[i].data)}
        /\ \A i \in 1..Len(reqs) :
              \A item \in Items : \A k \in 1..Len(item.links) :
                  reqs[i].url # item.links[k].href

C7_Witness ==
    /\ PluginsAnswered
    /\ Len(document[1].items) = 1
    /\ LinkCount(document[1].items[1].links, "parameters") = 1
    /\ "parameters" \notin DOMAIN outcome[1].value.data[1]

----------------------------------------------------------------------------
(* C8 *)

\* the operation is over and returned a paged result built from `document`
PagedResult ==
    /\ Done(Listings \cup {"get_plugin_parameters"})
    /\ document # None
    /\ Ok
    /\ call.method = "get_plugin_parameters" => found # None

\* C8: in a paged result hasNextPage tells whether the document has a `next`
\* link, hasPreviousPage whether it has a `previous` link, total is the
\* document's total, or 0 if it has none, and data holds the records of the
\* document's items in their order.
C8_PagedResult ==
    PagedResult =>
        LET d == document[1]
            r == outcome[1].value
        IN  /\ r.hasNextPage = HasLink(d.links, "next")
            /\ r.hasPreviousPage = HasLink(d.links, "previous")
            /\ r.total = (IF d.total = None THEN 0 ELSE d.total[1])
            /\ Len(r.data) = Len(d.items)
            /\ \A i \in 1..Len(d.items) : r.data[i] = RecordOf(d.items[i])

C8_Witness ==
    /\ PagedResult
    /\ call.method = "get_plugin_metas"
    /\ HasLink(document[1].links, "previous")
    /\ ~HasLink(document[1].links, "next")
    /\ document[1].total = Some(MaxTotal)
    /\ document[1].items = <<ItemB, ItemA>>
    /\ outcome[1].value.total = MaxTotal

----------------------------------------------------------------------------
(* C9 *)

\* the JSON text of a template with one entry, and with two
Template1(n1, v1) ==
    "{\"template\": {\"data\": [{\"name\": \"" \o n1 \o "\", \"value\": \"" \o v1
    \o "\"}]}}"
Template2(n1, v1, n2, v2) ==
    "{\"template\": {\"data\": [{\"name\": \"" \o n1 \o "\", \"value\": \"" \o v1
    \o "\"}, {\"name\": \"" \o n2 \o "\", \"value\": \"" \o v2 \o "\"}]}}"

\* the fields modify_plugin_meta was called to modify, one <<name, value>> each
Modified == call.args.data

\* C9: modify_plugin_meta issues at most two requests: first the GET of the
\* name search, then, to the href of the first item found, a PUT whose body is
\* the JSON template with one entry per modified field; when it returns it has
\* issued both.
C9_ModifyRequests ==
    call.method = "modify_plugin_meta" =>
        /\ Len(reqs) <= 2
        /\ Len(reqs) >= 1 =>
              /\ reqs[1].verb = "GET"
              /\ reqs[1].url = store_url \o "search/"
              /\ reqs[1].params = Some(<< <<"name_exact", call.args.name>> >>)
        /\ Len(reqs) = 2 =>
              /\ reqs[2].verb = "PUT"
              /\ reqs[2].url = found[1].href
              /\ reqs[2].data[1].value =
                    (IF Len(Modified) = 1
                     THEN Template1(Modified[1][1], Modified[1][2])
                     ELSE Template2(Modified[1][1], Modified[1][2],
                                    Modified[2][1], Modified[2][2]))
        /\ (pc = "done" /\ Ok) => Len(reqs) = 2

C9_Witness ==
    /\ Done({"modify_plugin_meta"})
    /\ Ok
    /\ Len(Modified) = 2
    /\ Len(reqs) = 2
    /\ reqs[2].verb = "PUT"

----------------------------------------------------------------------------
(* C10 *)

\* the descriptor file the running method was called with, None if none
DescriptorFile ==
    IF call.method = "add_plugin" THEN call.args.descriptor_file ELSE None

JsonPrefix == "{\"template\": {\"data\": ["

\* C10: a POST or PUT request made without descriptor file has the JSON text
\* of the template as its body, no file, and Content-Type and Accept set to
\* the Collection+JSON media type; one made with a descriptor file has the
\* file attached, the plain fields as its form data, and no headers.
C10_JsonXorMultipart ==
    \A i \in 1..Len(reqs) :
        reqs[i].verb \in {"POST", "PUT"} =>
            IF DescriptorFile = None
            THEN /\ reqs[i].files = None
                 /\ reqs[i].data[1].type = "str"
                 /\ SubSeq(reqs[i].data[1].value, 1, Len(JsonPrefix)) = JsonPrefix
                 /\ reqs[i].headers # None
                 /\ reqs[i].headers[1]["Content_Type"] = "application/vnd.collection+json"
                 /\ reqs[i].headers[1]["Accept"] = "application/vnd.collection+json"
            ELSE /\ reqs[i].files = Some(<< <<"descriptor_file", DescriptorFile[1]>> >>)
                 /\ reqs[i].data[1].type = "dict"
                 /\ reqs[i].data[1].value = call.args.data
                 /\ reqs[i].headers = None

C10_Witness ==
    /\ Done({"add_plugin"})
    /\ DescriptorFile # None
    /\ Len(reqs) > 0
    /\ reqs[Len(reqs)].verb = "POST"
    /\ reqs[Len(reqs)].files # None
    /\ reqs[Len(reqs)].headers = None

----------------------------------------------------------------------------
(* C11 *)

\* no request of the operation is issued twice
NoResend == \A i, j \in 1..Len(reqs) : i # j => reqs[i] # reqs[j]

\* the operation is over with an error, its last request being the only one
\* that failed
EndedByFailure ==
    /\ pc = "done"
    /\ outcome # None /\ outcome[1].kind = "raise"
    /\ failed = {Len(reqs)}

\* C11, as the specification states it: as soon as a request of an operation
\* has failed, by a transport error or by an error body, the operation is over
\* with an error and the failed request is its last and its only failed one;
\* no request is issued twice.
C11_FirstFailureEnds ==
    /\ failed # {} => EndedByFailure
    /\ NoResend

\* C11, the part the code keeps: that holds for every request but a DELETE
\* answered with an error body, after which the operation is over as well,
\* the DELETE being its last request, but has returned normally.
C11_FailureEndsButDelete ==
    /\ failed # {} =>
          /\ pc = "done"
          /\ failed = {Len(reqs)}
          /\ outcome # None
          /\ (reqs[Len(reqs)].verb # "DELETE" \/ errorBody = None) =>
                outcome[1].kind = "raise"
    /\ NoResend

\* a search that succeeded, then a request that failed: the operation is over
C11_Witness ==
    /\ Done({"modify_plugin_meta", "get_plugin_parameters"})
    /\ Len(reqs) >= 2
    /\ failed = {Len(reqs)}
    /\ Failed("StoreRequestException")

----------------------------------------------------------------------------
(* C12 *)

Mutators == {"remove_plugin", "modify_plugin_meta", "remove_plugin_meta"}

\* the search request the running mutating method makes before it mutates
SearchRequest ==
    [verb |-> "GET",
     url |-> (IF call.method = "remove_plugin" THEN urls["plugins"] ELSE store_url)
             \o "search/",
     params |-> IF call.method = "modify_plugin_meta"
                THEN Some(<< <<"name_exact", call.args.name>> >>)
                ELSE Some(<< <<"id", call.args.id>> >>)]

IsSearch(req) ==
    /\ req.verb = SearchRequest.verb
    /\ req.url = SearchRequest.url
    /\ req.params = SearchRequest.params

\* the search of the mutating method that is over was its last request and
\* was answered with a document
SearchAnswered ==
    /\ Done(Mutators)
    /\ Len(reqs) >= 1 /\ IsSearch(reqs[Len(reqs)])
    /\ document # None

\* C12: a DELETE or PUT of a removing or modifying method is the request that
\* follows its search GET, the search did not fail and found a first item, and
\* the request goes to that item's href (a DELETE for the removing methods, a
\* PUT for modify_plugin_meta); a method whose search was answered with zero
\* items is over with an error and has issued no DELETE and no PUT.
C12_MutationAfterSearch ==
    call.method \in Mutators =>
        /\ \A i \in 1..Len(reqs) :
              reqs[i].verb # "GET" =>
                  /\ i = Len(reqs) /\ i >= 2
                  /\ IsSearch(reqs[i - 1])
                  /\ (i - 1) \notin failed
                  /\ found # None
                  /\ reqs[i].url = found[1].href
                  /\ reqs[i].verb =
                        (IF call.method = "modify_plugin_meta" THEN "PUT" ELSE "DELETE")
        /\ SearchAnswered =>
              /\ Len(document[1].items) = 0
              /\ outcome # None /\ outcome[1].kind = "raise"
              /\ \A i \in 1..Len(reqs) : reqs[i].verb = "GET"

\* a DELETE went to the href of the first of two different items found
C12_Witness ==
    /\ Done({"remove_plugin_meta"})
    /\ found = Some(ItemB)
    /\ Len(reqs) = 2
    /\ reqs[2].verb = "DELETE"
    /\ reqs[2].url = ItemB.href

\* a search answered with zero items
C12_WitnessNoItem ==
    /\ SearchAnswered
    /\ call.method = "remove_plugin"
    /\ document[1].error = None
    /\ Failed("IndexError")

----------------------------------------------------------------------------
(* C13 *)

\* the number, in `reqs`, of the id search of get_plugin_parameters
SearchNo == IF Len(reqs) >= 1 /\ RootGet(1) THEN 2 ELSE 1

\* get_plugin_parameters is over and its id search was answered without failure
ParametersSearched ==
    /\ Done({"get_plugin_parameters"})
    /\ Len(reqs) >= SearchNo
    /\ SearchNo \notin failed

\* the href of the first link of relation rel
FirstLink(links, rel) ==
    links[CHOOSE i \in 1..Len(links) :
              links[i].rel = rel /\ \A j \in 1..(i - 1) : links[j].rel # rel].href

\* the paged result of document d
PagedOf(d) ==
    [data |-> [i \in 1..Len(d.items) |-> RecordOf(d.items[i])],
     hasNextPage |-> HasLink(d.links, "next"),
     hasPreviousPage |-> HasLink(d.links, "previous"),
     total |-> IF d.total = None THEN 0 ELSE d.total[1]]

EmptyPaged ==
    [data |-> <<>>, hasNextPage |-> FALSE, hasPreviousPage |-> FALSE, total |-> 0]

\* C13: get_plugin_parameters whose id search was answered has one of three
\* outcomes.  Zero items found: a StoreRequestException naming the id, the
\* search being the last request.  A first item with a `parameters` link: one
\* more request, a GET of the first such link with the caller's params, and
\* the paged result of the document it is answered with (an exception if it
\* fails).  A first item without `parameters` link: no further request and
\* the empty paged result.
C13_ThreeOutcomes ==
    ParametersSearched =>
        IF found = None
        THEN /\ Len(reqs) = SearchNo
             /\ document # None
             /\ IF Len(document[1].items) = 0
                THEN /\ Failed("StoreRequestException")
                     /\ Contains(outcome[1].msg, ToString(call.args.plugin_id))
                ELSE /\ ~HasLink(document[1].items[1].links, "parameters")
                     /\ Ok
                     /\ outcome[1].value = EmptyPaged
        ELSE /\ HasLink(found[1].links, "parameters")
             /\ Len(reqs) = SearchNo + 1
             /\ reqs[SearchNo + 1].verb = "GET"
             /\ reqs[SearchNo + 1].url = FirstLink(found[1].links, "parameters")
             /\ reqs[SearchNo + 1].params = call.args.params
             /\ IF (SearchNo + 1) \in failed
                THEN Failed("StoreRequestException")
                ELSE /\ document # None
                     /\ Ok
                     /\ outcome[1].value = PagedOf(document[1])

\* the first of two `parameters` links was fetched with the caller's params
C13_Witness ==
    /\ ParametersSearched
    /\ found = Some(ItemB)
    /\ call.args.params # None
    /\ reqs[Len(reqs)].url = ItemB.links[1].href
    /\ Ok
    /\ Len(outcome[1].value.data) = MaxItems

\* the other two outcomes
C13_WitnessNotFound ==
    /\ ParametersSearched
    /\ found = None /\ Len(document[1].items) = 0
    /\ Failed("StoreRequestException")

C13_WitnessNoLink ==
    /\ ParametersSearched
    /\ found = None /\ Len(document[1].items) > 0
    /\ document[1].links # <<>> /\ document[1].total = Some(MaxTotal)
    /\ Ok

----------------------------------------------------------------------------
(* C14 *)

Flattened == Done({"_get_item_descriptors"})

\* C14: the record an item is flattened to has the names of the item's
\* descriptors as its keys and no other; under each name it has the value of
\* the last descriptor of that name, the very value the descriptor carries:
\* an integer `id` is an integer in the record.
C14_Flatten ==
    Flattened =>
        LET data == found[1].data
            item_dict == outcome[1].value
        IN  /\ DOMAIN item_dict = {data[i].name : i \in 1..Len(data)}
            /\ \A name \in DOMAIN item_dict :
                  /\ item_dict[name] = data[LastIndex(data, name)].value
                  /\ name = "id" => item_dict[name] \in Int

\* a name that occurs twice with different integers, another that occurs once
C14_Witness ==
    /\ Flattened
    /\ found[1].data = <<Descriptor("id", 1), Descriptor("name", "1"),
                         Descriptor("id", 2)>>
    /\ outcome[1].value["id"] = 2

----------------------------------------------------------------------------
(* C15 *)

\* the resources whose URL get_url takes from the root document
Fetched == {"plugins", "pipelines", "plugin_stars"}

Unresolved(cache) == \A n \in Fetched : cache[n] = ""

\* a get_url call for one of the resources is over
GetUrlDone == Done({"get_url"}) /\ call.args.resource_name \in ResourceNames

\* C15: the cache always has the four resource names as its keys, the entry
\* of plugin_metas is the store URL, and the other three entries are all empty
\* or all non-empty.  An operation changes the cache only by a root fetch that
\* took an empty cache to a populated one.  A get_url call that failed, by a
\* root fetch that failed or by a root document that lacks one of the three
\* relations, requested or not, has left the cache as it was; and a get_url
\* call for one of the three resources that finds their entries empty, as
\* after such a failure, fetches the root document.
C15_CacheShape ==
    /\ DOMAIN urls = ResourceNames
    /\ urls["plugin_metas"] = store_url
    /\ Unresolved(urls) \/ Populated(urls)
    /\ pc # "idle" =>
          \/ urls = call.urls0
          \/ /\ Unresolved(call.urls0) /\ Populated(urls)
             /\ Len(reqs) >= 1 /\ RootGet(1) /\ 1 \notin failed
    /\ GetUrlDone =>
          /\ ~Ok => urls = call.urls0
          /\ (reqs # <<>> /\ 1 \in failed) => Failed("StoreRequestException")
          /\ document # None =>
                IF \A n \in Fetched : HasLink(document[1].links, n)
                THEN /\ Ok
                     /\ \A n \in Fetched : urls[n] = FirstLink(document[1].links, n)
                ELSE /\ Failed("IndexError")
                     /\ urls = call.urls0
          /\ (call.args.resource_name \in Fetched /\ Unresolved(call.urls0)) =>
                Len(reqs) = 1 /\ RootGet(1)

\* after a root fetch that failed, get_url('plugins') has fetched the root
\* document again; the document has a `plugins` link but no `pipelines` link:
\* the call has failed and the cache is as empty as before
C15_Witness ==
    /\ GetUrlDone
    /\ call.failed0
    /\ call.args.resource_name = "plugins"
    /\ Len(reqs) = 1 /\ RootGet(1)
    /\ document # None
    /\ HasLink(document[1].links, "plugins")
    /\ ~HasLink(document[1].links, "pipelines")
    /\ Failed("IndexError")
    /\ Unresolved(urls)

\* after a root fetch that failed, the next fetch has populated the cache
C15_WitnessRetry ==
    /\ GetUrlDone
    /\ call.failed0
    /\ Unresolved(call.urls0)
    /\ Ok
    /\ Populated(urls)

====
